---- MODULE Spec2Model ----
(***************************************************************************)
(* A model of the district Wi-Fi monitoring server: the timer-driven       *)
(* simulator and WebSocket broadcaster of app.js / server.js, and the      *)
(* account, session and route handlers of app.js / server.js over the      *)
(* tables of database.js.                                                  *)
(***************************************************************************)
EXTENDS Integers, Sequences, FiniteSets, TLC

(***************************************************************************)
(* Bounds of the model.                                                    *)
(***************************************************************************)
\* districts loaded into wifiData.districts (the program seeds 10)
NumDistricts == 2
\* timer firings modelled (setInterval fires for ever)
MaxTicks == 2
\* WebSocket connections accepted
MaxConnections == 2
\* request_update messages a connection sends
MaxRequests == 1

Districts == 1..NumDistricts
TickIds == 1..MaxTicks
Connections == 1..MaxConnections

Statuses == {"normal", "warning", "critical"}

Max(a, b) == IF a >= b THEN a ELSE b
Min(a, b) == IF a <= b THEN a ELSE b

(***************************************************************************)
(* Rows Database.initializeDistricts can seed: total_hotspots in           *)
(* 500..2499, active_hotspots in 300..1799, utilization in 40..79, any     *)
(* status.  Two representative rows, one of them with an active count      *)
(* above its total.                                                        *)
(***************************************************************************)
SeedRows ==
  { [name |-> "Ariyalur", total_hotspots |-> 500, active_hotspots |-> 505,
     utilization |-> 79, status |-> "critical"],
    [name |-> "Chennai", total_hotspots |-> 2499, active_hotspots |-> 300,
     utilization |-> 40, status |-> "normal"] }

\* Results of the Math.random() calls of one loop iteration of
\* simulateRealTimeData: da in -10..9, du in -4..3, and the class of rand.
Draws ==
  { [da |-> 9, du |-> 3, rand |-> "ge10"],
    [da |-> -10, du |-> -4, rand |-> "lt05"],
    [da |-> 9, du |-> 3, rand |-> "lt10"] }

\* Results of the three Math.random() calls that perturb the top-level
\* metrics: dt in -10..9, da in -15..14, du in -3..2.
TopDraws ==
  { [dt |-> 9, da |-> -15, du |-> 2],
    [dt |-> -10, da |-> 14, du |-> -3] }

VARIABLES
  dbDistricts,   \* the districts table: id -> row
  wifi_metrics,  \* the wifi_metrics table: sequence of inserted rows
  wifiData,      \* the in-memory store of the server
  ticks,         \* invocations of simulateRealTimeData: id -> position
  clients        \* wss.clients: connection -> readyState and messages sent to it

simVars == <<dbDistricts, wifi_metrics, wifiData, ticks, clients>>

VARIABLES
  users,                \* the users table: id -> row
  usersLastId,          \* AUTOINCREMENT counter of users
  admins,               \* the admins table: id -> row
  user_activity_logs,   \* the user_activity_logs table: sequence of actions
  admin_activity_logs,  \* the admin_activity_logs table: sequence of actions
  security_events,      \* the security_events table: sequence of rows
  system_settings,      \* the system_settings table: key -> value
  sessions,             \* express-session store: client -> session fields
  authHits,             \* authLimiter: client -> requests counted in the window
  registering,          \* /api/auth/register handlers awaiting createUser
  response              \* the last HTTP response sent

authVars == <<users, usersLastId, admins, user_activity_logs, admin_activity_logs,
              security_events, system_settings, sessions, authHits, registering, response>>

VARIABLES
  reachable,   \* the server accepts WebSocket connections
  monitors,    \* pages running realtime-monitor.js: page -> sockets and timers
  dashboard    \* the page running the dashboard script (script.js, viewer.js)

pageVars == <<reachable, monitors, dashboard>>

VARIABLES
  devices,      \* the devices table: id -> row
  device_logs,  \* the device_logs table: sequence of rows
  calls         \* requests to POST /api/simulate-device: request -> position

deviceVars == <<devices, device_logs, calls>>
vars == <<simVars, authVars, pageVars, deviceVars>>

(***************************************************************************)
(* Pure helpers of the simulator.                                          *)
(***************************************************************************)
RECURSIVE SumOver(_, _, _)
SumOver(f, S, field) ==
  IF S = {} THEN 0
  ELSE LET x == CHOOSE y \in S : TRUE
       IN f[x][field] + SumOver(f, S \ {x}, field)

\* Math.round(a / b * 100) for a >= 0, b > 0
RoundPercent(a, b) == (200 * a + b) \div (2 * b)

\* updateMetricsFromDistricts, as a function of the store
updateMetricsFromDistricts(w) ==
  LET totalHotspots == SumOver(w.districts, DOMAIN w.districts, "total_hotspots")
      activeHotspots == SumOver(w.districts, DOMAIN w.districts, "active_hotspots")
      utilization == IF totalHotspots > 0 THEN RoundPercent(activeHotspots, totalHotspots) ELSE 0
      criticalDistricts == Cardinality({d \in DOMAIN w.districts : w.districts[d].status = "critical"})
  IN [w EXCEPT !.totalHotspots = totalHotspots,
               !.activeHotspots = activeHotspots,
               !.utilization = utilization,
               !.criticalDistricts = criticalDistricts]

\* a clamp of active_hotspots that forgets the upper limit
ClampActiveNoUpper(total, active, da) == Max(0, active + da)

\* the clamp of active_hotspots: Math.max(0, Math.min(total, active + da))
ClampActive(total, active, da) == Max(0, Min(total, active + da))

\* the clamp of utilization: Math.max(0, Math.min(100, utilization + du))
ClampUtilization(utilization, du) == Max(0, Min(100, utilization + du))

\* the random status change of one district
NewStatus(status, rand) ==
  IF rand = "lt05" THEN (IF status = "critical" THEN "warning" ELSE "critical")
  ELSE IF rand = "lt10" THEN (IF status = "normal" THEN "warning" ELSE "normal")
  ELSE status

\* the values one loop iteration computes for a district before its await
NewDistrictValues(district, draw) ==
  [active_hotspots |-> ClampActive(district.total_hotspots, district.active_hotspots, draw.da),
   utilization |-> ClampUtilization(district.utilization, draw.du),
   status |-> NewStatus(district.status, draw.rand)]

\* the top-level perturbation at the start of simulateRealTimeData
PerturbMetrics(w, td) ==
  [w EXCEPT !.totalHotspots = w.totalHotspots + td.dt,
            !.activeHotspots = w.activeHotspots + td.da,
            !.utilization = Max(0, Min(100, w.utilization + td.du))]

NoValues == [active_hotspots |-> 0, utilization |-> 0, status |-> "normal"]
NoMetrics == [totalHotspots |-> 0, activeHotspots |-> 0, utilization |-> 0, criticalDistricts |-> 0]
IdleTick == [pc |-> "idle", i |-> 0, new |-> NoValues, metrics |-> NoMetrics]

\* the four top-level metrics of the store
MetricsOf(w) ==
  [totalHotspots |-> w.totalHotspots, activeHotspots |-> w.activeHotspots,
   utilization |-> w.utilization, criticalDistricts |-> w.criticalDistricts]

\* client.send(message) for every client of wss.clients that is OPEN
SendToOpen(cl, type) ==
  [c \in DOMAIN cl |->
     IF cl[c].readyState = "OPEN"
     THEN [cl[c] EXCEPT !.msgs = Append(@, type)]
     ELSE cl[c]]

\* a broadcast that skips the readyState test
BroadcastToAll(cl) == [c \in DOMAIN cl |-> [cl[c] EXCEPT !.msgs = Append(@, "data_update")]]

\* broadcastUpdate
broadcastUpdate(cl) == SendToOpen(cl, "data_update")

\* a connection handler that sends nothing on connection
NoGreeting == <<>>

\* the messages the connection handler sends when a client connects
ConnectionGreeting == <<"initial_data">>

(***************************************************************************)
(* State after startServer: database.init has seeded the districts table   *)
(* and loadDistrictsFromDB has copied it into wifiData.                    *)
(***************************************************************************)
SimInit ==
  /\ dbDistricts \in [Districts -> SeedRows]
  /\ wifi_metrics = <<>>
  /\ wifiData = updateMetricsFromDistricts(
                  [totalHotspots |-> 12500, activeHotspots |-> 9800, utilization |-> 62,
                   criticalDistricts |-> 118, districts |-> dbDistricts])
  /\ ticks = [t \in TickIds |-> IdleTick]
  /\ clients = [c \in Connections |-> [readyState |-> "NONE", msgs |-> <<>>, requests |-> 0]]

InProgress(t) == ticks[t].pc \in {"updateDistrict", "saveMetrics"}

\* setInterval fires: simulateRealTimeData runs up to its first await
TickStart(t) ==
  /\ UNCHANGED <<authVars, pageVars, deviceVars>>
  /\ ticks[t].pc = "idle"
  /\ \A u \in TickIds : u < t => ticks[u].pc # "idle"
  /\ \E td \in TopDraws, draw \in Draws :
       LET w == PerturbMetrics(wifiData, td)
       IN /\ wifiData' = w
          /\ ticks' = [ticks EXCEPT ![t] =
                         [pc |-> "updateDistrict", i |-> 1,
                          new |-> NewDistrictValues(w.districts[1], draw),
                          metrics |-> NoMetrics]]
  /\ UNCHANGED <<dbDistricts, wifi_metrics, clients>>

\* database.updateDistrict resolves: the row is written, the in-memory
\* district is assigned, and the loop runs to its next await
UpdateResolve(t) ==
  /\ UNCHANGED <<authVars, pageVars, deviceVars>>
  /\ ticks[t].pc = "updateDistrict"
  /\ LET i == ticks[t].i
         new == ticks[t].new
         row == [dbDistricts[i] EXCEPT !.active_hotspots = new.active_hotspots,
                                       !.utilization = new.utilization,
                                       !.status = new.status]
         mem == [wifiData.districts[i] EXCEPT !.active_hotspots = new.active_hotspots,
                                              !.utilization = new.utilization,
                                              !.status = new.status]
         w == [wifiData EXCEPT !.districts[i] = mem]
     IN /\ dbDistricts' = [dbDistricts EXCEPT ![i] = row]
        /\ IF i < NumDistricts
           THEN \E draw \in Draws :
                  /\ wifiData' = w
                  /\ ticks' = [ticks EXCEPT ![t].i = i + 1,
                                            ![t].new = NewDistrictValues(w.districts[i + 1], draw)]
           ELSE /\ wifiData' = updateMetricsFromDistricts(w)
                /\ ticks' = [ticks EXCEPT ![t] =
                               [pc |-> "saveMetrics", i |-> 0, new |-> NoValues,
                                metrics |-> MetricsOf(updateMetricsFromDistricts(w))]]
  /\ UNCHANGED <<wifi_metrics, clients>>

\* a loop that assigns the in-memory district before it awaits the write
AssignThenReject(t) ==
  /\ UNCHANGED <<authVars, pageVars, deviceVars>>
  /\ ticks[t].pc = "updateDistrict"
  /\ wifiData' = [wifiData EXCEPT
                    !.districts[ticks[t].i].active_hotspots = ticks[t].new.active_hotspots,
                    !.districts[ticks[t].i].utilization = ticks[t].new.utilization,
                    !.districts[ticks[t].i].status = ticks[t].new.status]
  /\ ticks' = [ticks EXCEPT ![t] = [IdleTick EXCEPT !.pc = "failed"]]
  /\ UNCHANGED <<dbDistricts, wifi_metrics, clients>>

\* database.updateDistrict rejects: the catch block ends the invocation
UpdateReject(t) ==
  /\ UNCHANGED <<authVars, pageVars, deviceVars>>
  /\ ticks[t].pc = "updateDistrict"
  /\ ticks' = [ticks EXCEPT ![t] = [IdleTick EXCEPT !.pc = "failed"]]
  /\ UNCHANGED <<dbDistricts, wifi_metrics, wifiData, clients>>

\* database.saveMetrics resolves: the row is inserted and broadcastUpdate runs
SaveResolve(t) ==
  /\ UNCHANGED <<authVars, pageVars, deviceVars>>
  /\ ticks[t].pc = "saveMetrics"
  /\ wifi_metrics' = Append(wifi_metrics, ticks[t].metrics)
  /\ clients' = broadcastUpdate(clients)
  /\ ticks' = [ticks EXCEPT ![t] = [IdleTick EXCEPT !.pc = "done"]]
  /\ UNCHANGED <<dbDistricts, wifiData>>

\* a catch block that broadcasts all the same
SaveRejectBroadcasts(t) ==
  /\ UNCHANGED <<authVars, pageVars, deviceVars>>
  /\ ticks[t].pc = "saveMetrics"
  /\ clients' = broadcastUpdate(clients)
  /\ ticks' = [ticks EXCEPT ![t] = [IdleTick EXCEPT !.pc = "failed"]]
  /\ UNCHANGED <<dbDistricts, wifi_metrics, wifiData>>

\* database.saveMetrics rejects: the catch block ends the invocation
SaveReject(t) ==
  /\ UNCHANGED <<authVars, pageVars, deviceVars>>
  /\ ticks[t].pc = "saveMetrics"
  /\ ticks' = [ticks EXCEPT ![t] = [IdleTick EXCEPT !.pc = "failed"]]
  /\ UNCHANGED <<dbDistricts, wifi_metrics, wifiData, clients>>

\* wss.on('connection'): the socket joins wss.clients and is sent initial_data
Connection(c) ==
  /\ UNCHANGED <<authVars, pageVars, deviceVars>>
  /\ clients[c].readyState = "NONE"
  /\ \A b \in Connections : b < c => clients[b].readyState # "NONE"
  /\ clients' = [clients EXCEPT ![c] =
                   [readyState |-> "OPEN", msgs |-> ConnectionGreeting, requests |-> 0]]
  /\ UNCHANGED <<dbDistricts, wifi_metrics, wifiData, ticks>>

\* ws.on('message') with {type: 'request_update'}: the reply is a data_update
RequestUpdate(c) ==
  /\ UNCHANGED <<authVars, pageVars, deviceVars>>
  /\ clients[c].readyState = "OPEN"
  /\ clients[c].requests < MaxRequests
  /\ clients' = [clients EXCEPT ![c].msgs = Append(@, "data_update"),
                                ![c].requests = @ + 1]
  /\ UNCHANGED <<dbDistricts, wifi_metrics, wifiData, ticks>>

\* ws.on('close')
Close(c) ==
  /\ UNCHANGED <<authVars, pageVars, deviceVars>>
  /\ clients[c].readyState = "OPEN"
  /\ clients' = [clients EXCEPT ![c].readyState = "CLOSED"]
  /\ UNCHANGED <<dbDistricts, wifi_metrics, wifiData, ticks>>

\* the data object of the initial_data envelope (its sample hotspots left out)
InitialDataPayload(w) ==
  [districts |-> w.districts, totalHotspots |-> w.totalHotspots,
   activeHotspots |-> w.activeHotspots, utilization |-> w.utilization]

\* the data object of the data_update sent in reply to request_update
RequestUpdatePayload(w) ==
  [districts |-> w.districts, totalHotspots |-> w.totalHotspots,
   activeHotspots |-> w.activeHotspots, utilization |-> w.utilization]

\* the data object of the data_update that broadcastUpdate sends
BroadcastPayload(w) ==
  [districts |-> w.districts, totalHotspots |-> w.totalHotspots,
   activeHotspots |-> w.activeHotspots, utilization |-> w.utilization,
   criticalDistricts |-> w.criticalDistricts]

\* the body of GET /api/wifi-data: res.json(wifiData)
WifiDataBody(w) == w

\* GET /api/wifi-data
GetApiWifiData ==
  /\ response' = [route |-> "GET /api/wifi-data", status |-> 200]
  /\ UNCHANGED <<users, usersLastId, admins, user_activity_logs, admin_activity_logs,
                 security_events, system_settings, sessions, authHits, registering>>
  /\ UNCHANGED <<simVars, pageVars, deviceVars>>

(***************************************************************************)
(* Accounts, sessions and routes.                                          *)
(***************************************************************************)
\* rows the users table may receive (AUTOINCREMENT ids 1..MaxUsers)
MaxUsers == 2
\* rows kept in each activity-log table
MaxLogRows == 2
\* rows kept in security_events
MaxEvents == 5
\* failed logins counted in one session
MaxLoginAttempts == 4
\* /api/auth/register handlers suspended at an await at the same time
MaxInFlight == 2
\* authLimiter: failed authentication requests allowed in one window
AuthMax == 5

Clients == {"c1"}
Usernames == {"alice", "bob"}
Emails == {"a@x.org", "b@x.org"}
ValidRoles == {"user", "admin", "viewer"}


\* bcrypt.hash / bcrypt.hashSync: the stored value is never the plaintext
Hash(p) == [alg |-> "bcrypt", of |-> p]
\* a value written to the password column as it was submitted
Plain(p) == [alg |-> "none", of |-> p]
\* bcrypt.compareSync(password, stored)
compareSync(p, stored) == stored = Hash(p)

\* username.trim().replace(/[<>"'&]/g, '')
Sanitize(u) ==
  CASE u = "<bob>" -> "bob"
    [] u = " alice" -> "alice"
    [] OTHER -> u

\* a UNIQUE column of a table already holds the value (in a row other than `except`)
Taken(tbl, col, val, except) ==
  \E id \in DOMAIN tbl : id # except /\ tbl[id][col] = val

\* a table whose email column lost its UNIQUE constraint
UniqueUsernameOnly(tbl, row) == ~Taken(tbl, "username", row.username, 0)

\* INSERT INTO a table with UNIQUE(username) and UNIQUE(email)
UniqueOk(tbl, row) ==
  /\ ~Taken(tbl, "username", row.username, 0)
  /\ ~Taken(tbl, "email", row.email, 0)

InsertRow(tbl, id, row) == [i \in DOMAIN tbl \cup {id} |-> IF i = id THEN row ELSE tbl[i]]

\* Database.createUser: the row INSERTed into users
createUser(userData) ==
  [username |-> userData.username, email |-> userData.email,
   role |-> userData.role, password |-> Hash(userData.password), is_active |-> 1]

\* Database.createAdmin: the row INSERTed into admins
createAdmin(adminData) ==
  [username |-> adminData.username, email |-> adminData.email,
   role |-> adminData.role, password |-> Hash(adminData.password),
   status |-> IF adminData.status # "" THEN adminData.status ELSE "pending_verification",
   is_active |-> IF adminData.isActive THEN 1 ELSE 0]

\* Database.seedInitialData: the default admin, INSERT OR IGNORE
SeedAdmin ==
  [username |-> "admin", email |-> "admin@wifi-monitor.com", role |-> "admin",
   password |-> Hash("admin123"), status |-> "active", is_active |-> 1]

\* Database.initializeSettings
SeedSettings ==
  [k \in {"update_interval", "critical_threshold", "max_logs"} |->
     CASE k = "update_interval" -> "2"
       [] k = "critical_threshold" -> "80"
       [] OTHER -> "100"]

\* the column an identifier of an UPDATE names: SQLite matches names without case
Column(key) == IF key = "Password" THEN "password" ELSE key

\* the keys PUT /api/users/:id removes from the body
RemovedKeys == {"id", "created_at", "password"}
StripSensitive(body) == [k \in DOMAIN body \ RemovedKeys |-> body[k]]

\* the columns of users and of admins an UPDATE may set
UserColumns == {"username", "email", "role", "password", "is_active"}
AdminColumns == {"username", "email", "role", "password", "status", "is_active"}

\* the value an UPDATE binds to a column: written as it was submitted
Stored(col, value) == IF col = "password" THEN Plain(value) ELSE value

\* Database.updateUser: UPDATE <table> SET k1 = ?, ... WHERE id = ?
\* result: err (the statement failed), changes, and the table afterwards
updateUser(tbl, columns, userId, updates) ==
  IF DOMAIN updates = {}
  THEN [err |-> TRUE, changes |-> 0, tbl |-> tbl]
  ELSE IF \E k \in DOMAIN updates : Column(k) \notin columns
  THEN [err |-> TRUE, changes |-> 0, tbl |-> tbl]
  ELSE IF userId \notin DOMAIN tbl
  THEN [err |-> FALSE, changes |-> 0, tbl |-> tbl]
  ELSE LET row == tbl[userId]
           new == [col \in DOMAIN row |->
                     IF \E k \in DOMAIN updates : Column(k) = col
                     THEN Stored(col, updates[CHOOSE k \in DOMAIN updates : Column(k) = col])
                     ELSE row[col]]
       IN IF \/ Taken(tbl, "username", new.username, userId)
             \/ Taken(tbl, "email", new.email, userId)
          THEN [err |-> TRUE, changes |-> 0, tbl |-> tbl]
          ELSE [err |-> FALSE, changes |-> 1, tbl |-> [tbl EXCEPT ![userId] = new]]

\* Database.authenticateUser: the row, or NoUser
NoUser == [id |-> 0, role |-> "", status |-> ""]
authenticateUser(username, password, userType) ==
  LET tbl == IF userType = "admin" THEN admins ELSE users
      found == {id \in DOMAIN tbl :
                  /\ tbl[id].username = username
                  /\ IF userType = "admin"
                     THEN tbl[id].is_active = 1 \/ tbl[id].status = "pending_verification"
                     ELSE tbl[id].is_active = 1}
  IN IF found = {} THEN NoUser
     ELSE LET id == CHOOSE i \in found : TRUE
          IN IF compareSync(password, tbl[id].password)
             THEN [id |-> id, role |-> tbl[id].role,
                   status |-> IF userType = "admin" THEN tbl[id].status ELSE ""]
             ELSE NoUser

\* Database.updateAdmin: updateUser on the admins table
updateAdmin(userId, updates) == updateUser(admins, AdminColumns, userId, updates)

NoSession == [userId |-> 0, userRole |-> "", loginAttempts |-> 0]
NoResponse == [route |-> "", status |-> 0]

Respond(route, status) == response' = [route |-> route, status |-> status]

\* authLimiter: a request is counted when it arrives and uncounted when its
\* response status is below 400 (skipSuccessfulRequests)
Counted(c) == [authHits EXCEPT ![c] = Min(AuthMax + 1, @ + 1)]
Limited(c) == authHits[c] + 1 > AuthMax

AuthInit ==
  /\ users = <<>>
  /\ usersLastId = 0
  /\ admins = InsertRow(<<>>, 1, SeedAdmin)
  /\ user_activity_logs = <<>>
  /\ admin_activity_logs = <<>>
  /\ security_events = <<>>
  /\ system_settings = SeedSettings
  /\ sessions = [c \in Clients |-> NoSession]
  /\ authHits = [c \in Clients |-> 0]
  /\ registering = 0
  /\ response = NoResponse

(***************************************************************************)
(* The browser pages.  realtime-monitor.js opens its socket in             *)
(* connectWebSocket and calls it again 3 seconds after a close.            *)
(***************************************************************************)
\* pages running realtime-monitor.js
MaxMonitors == 2
\* sockets and timers counted for one page (counters stop there)
MaxPending == 2

Monitors == 1..MaxMonitors

\* a page after DOMContentLoaded has called connectWebSocket once
NewMonitor ==
  [ws |-> "CONNECTING", orphans |-> 0, timers |-> 0, connects |-> 1,
   indicator |-> "none", lastMessage |-> "none"]

\* a socket that is connecting or open
Live(readyState) == readyState \in {"CONNECTING", "OPEN"}

\* connectWebSocket: ws = new WebSocket(...); a socket that ws still
\* referred to and that is not closed stays behind
connectWebSocket(mon) ==
  [mon EXCEPT !.ws = "CONNECTING",
              !.orphans = IF mon.ws # "CLOSED" THEN Min(MaxPending, @ + 1) ELSE @,
              !.connects = Min(MaxPending, @ + 1)]

\* an onerror handler that also schedules a reconnection
OnErrorReconnects(mon) ==
  [mon EXCEPT !.indicator = "red", !.timers = Min(MaxPending, @ + 1)]

\* ws.onerror of realtime-monitor.js: the indicator turns red
MonitorOnError(mon) == [mon EXCEPT !.indicator = "red"]

\* ws.onclose of realtime-monitor.js: red, and setTimeout(connectWebSocket, 3000)
MonitorOnClose(mon) ==
  [mon EXCEPT !.indicator = "red", !.timers = Min(MaxPending, @ + 1)]

\* the socket opens: ws.onopen
MonitorOpen(m) ==
  /\ reachable
  /\ monitors[m].ws = "CONNECTING"
  /\ monitors' = [monitors EXCEPT ![m] = [@ EXCEPT !.ws = "OPEN", !.indicator = "green"]]
  /\ UNCHANGED <<simVars, authVars, deviceVars, reachable, dashboard>>

\* a message arrives: ws.onmessage
MonitorMessage(m, type) ==
  /\ monitors[m].ws = "OPEN"
  /\ monitors' = [monitors EXCEPT ![m].lastMessage = type]
  /\ UNCHANGED <<simVars, authVars, deviceVars, reachable, dashboard>>

\* the connection attempt fails: the error event, the close event follows
MonitorConnectFails(m) ==
  /\ ~reachable
  /\ monitors[m].ws = "CONNECTING"
  /\ monitors' = [monitors EXCEPT ![m] = [MonitorOnError(@) EXCEPT !.ws = "CLOSING"]]
  /\ UNCHANGED <<simVars, authVars, deviceVars, reachable, dashboard>>

\* an open connection breaks: the error event, the close event follows
MonitorError(m) ==
  /\ monitors[m].ws = "OPEN"
  /\ monitors' = [monitors EXCEPT ![m] = [MonitorOnError(@) EXCEPT !.ws = "CLOSING"]]
  /\ UNCHANGED <<simVars, authVars, deviceVars, reachable, dashboard>>

\* the close event of a socket that failed
MonitorClose(m) ==
  /\ monitors[m].ws = "CLOSING"
  /\ monitors' = [monitors EXCEPT ![m] = [MonitorOnClose(@) EXCEPT !.ws = "CLOSED"]]
  /\ UNCHANGED <<simVars, authVars, deviceVars, reachable, dashboard>>

\* the server closes an open connection: the close event alone
MonitorServerClose(m) ==
  /\ monitors[m].ws = "OPEN"
  /\ monitors' = [monitors EXCEPT ![m] = [MonitorOnClose(@) EXCEPT !.ws = "CLOSED"]]
  /\ UNCHANGED <<simVars, authVars, deviceVars, reachable, dashboard>>

\* a reconnection timer fires: connectWebSocket
MonitorTimer(m) ==
  /\ monitors[m].timers > 0
  /\ monitors' = [monitors EXCEPT ![m] = connectWebSocket([@ EXCEPT !.timers = @ - 1])]
  /\ UNCHANGED <<simVars, authVars, deviceVars, reachable, dashboard>>

\* the server stops or starts accepting connections
ServerDown ==
  /\ reachable
  /\ reachable' = FALSE
  /\ UNCHANGED <<simVars, authVars, deviceVars, monitors, dashboard>>
ServerUp ==
  /\ ~reachable
  /\ reachable' = TRUE
  /\ UNCHANGED <<simVars, authVars, deviceVars, monitors, dashboard>>

(***************************************************************************)
(* The dashboard script (script.js, viewer.js): one socket opened when the *)
(* script loads, a fallback timer of 5 seconds, and a page reload 3        *)
(* seconds after a close.  Time is counted in seconds since page load.     *)
(***************************************************************************)
\* seconds of page time modelled
MaxClock == 8
\* page loads counted (the counter stops there)
MaxLoads == 2
\* setTimeout(..., 5000) of the fallback and setTimeout(..., 3000) of the reload
FallbackDelay == 5
ReloadDelay == 3

\* the page when its script has run: socket connecting, fallback timer set
NewDashboard(loads) ==
  [clock |-> 0, ws |-> "CONNECTING", connectionStatus |-> "connecting",
   fallbackPending |-> TRUE, reloadAt |-> 0, opened |-> FALSE, gotMessage |-> FALSE,
   failed |-> FALSE, restLoaded |-> FALSE, loads |-> loads]

\* ws.onopen
DashboardOpen ==
  /\ reachable
  /\ dashboard.ws = "CONNECTING"
  /\ dashboard' = [dashboard EXCEPT !.ws = "OPEN", !.connectionStatus = "connected",
                                    !.opened = TRUE]
  /\ UNCHANGED <<simVars, authVars, deviceVars, reachable, monitors>>

\* ws.onmessage with initial_data or data_update: updateDashboard
DashboardMessage ==
  /\ dashboard.ws = "OPEN"
  /\ dashboard' = [dashboard EXCEPT !.gotMessage = TRUE]
  /\ UNCHANGED <<simVars, authVars, deviceVars, reachable, monitors>>

\* ws.onerror: the connection attempt fails or the open connection breaks
DashboardError ==
  /\ \/ dashboard.ws = "CONNECTING" /\ ~reachable
     \/ dashboard.ws = "OPEN"
  /\ dashboard' = [dashboard EXCEPT !.ws = "CLOSING", !.connectionStatus = "error",
                                    !.failed = @ \/ ~dashboard.gotMessage]
  /\ UNCHANGED <<simVars, authVars, deviceVars, reachable, monitors>>

\* ws.onclose: status disconnected, and setTimeout(location.reload, 3000)
DashboardClose ==
  /\ dashboard.ws \in {"OPEN", "CLOSING"}
  /\ dashboard' = [dashboard EXCEPT !.ws = "CLOSED", !.connectionStatus = "disconnected",
                                    !.reloadAt = dashboard.clock + ReloadDelay,
                                    !.failed = @ \/ ~dashboard.gotMessage]
  /\ UNCHANGED <<simVars, authVars, deviceVars, reachable, monitors>>

\* a timer of the page is due at the present second
FallbackDue == dashboard.fallbackPending /\ dashboard.clock = FallbackDelay
ReloadDue == dashboard.reloadAt # 0 /\ dashboard.clock = dashboard.reloadAt

\* one second passes; a timer that is due runs first
DashboardTick ==
  /\ dashboard.clock < MaxClock
  /\ ~FallbackDue /\ ~ReloadDue
  /\ dashboard' = [dashboard EXCEPT !.clock = @ + 1]
  /\ UNCHANGED <<simVars, authVars, deviceVars, reachable, monitors>>

\* the fallback timer: loadInitialData if connectionStatus is still 'connecting'
DashboardFallback ==
  /\ FallbackDue
  /\ dashboard' = [dashboard EXCEPT !.fallbackPending = FALSE,
                                    !.restLoaded = @ \/ dashboard.connectionStatus = "connecting"]
  /\ UNCHANGED <<simVars, authVars, deviceVars, reachable, monitors>>

\* the reload timer: location.reload() runs the script again
DashboardReload ==
  /\ ReloadDue
  /\ dashboard' = NewDashboard(Min(MaxLoads, dashboard.loads + 1))
  /\ UNCHANGED <<simVars, authVars, deviceVars, reachable, monitors>>

(***************************************************************************)
(* Devices: POST /api/simulate-device and Database.registerDevice, which   *)
(* selects the row of a MAC address and then updates or inserts it.        *)
(***************************************************************************)
\* requests to POST /api/simulate-device
MaxCalls == 3

Calls == 1..MaxCalls
\* two of the hundred addresses AA:BB:CC:DD:EE:00 .. 99 the route draws
MacAddresses == {"AA:BB:CC:DD:EE:00", "AA:BB:CC:DD:EE:01"}

NoCall == [pc |-> "idle", mac_address |-> "", row |-> 0, result |-> "none", status |-> 0]

\* ids of the rows of the devices table with this mac_address
RowsOf(mac) == {id \in DOMAIN devices : devices[id].mac_address = mac}

\* the route draws a device and calls registerDevice, which issues its SELECT
PostApiSimulateDevice(k, mac) ==
  /\ calls[k].pc = "idle"
  /\ \A j \in Calls : j < k => calls[j].pc # "idle"
  /\ calls' = [calls EXCEPT ![k] = [NoCall EXCEPT !.pc = "select", !.mac_address = mac]]
  /\ UNCHANGED <<devices, device_logs>>
  /\ UNCHANGED <<simVars, authVars, pageVars>>

\* the callback of SELECT id FROM devices WHERE mac_address = ?: with a row
\* it issues the UPDATE, without one the INSERT
RegisterDeviceSelect(k) ==
  /\ calls[k].pc = "select"
  /\ IF RowsOf(calls[k].mac_address) # {}
     THEN calls' = [calls EXCEPT ![k].pc = "update",
                                 ![k].row = CHOOSE id \in RowsOf(calls[k].mac_address) : TRUE]
     ELSE calls' = [calls EXCEPT ![k].pc = "insert"]
  /\ UNCHANGED <<devices, device_logs>>
  /\ UNCHANGED <<simVars, authVars, pageVars>>

\* the UPDATE runs: connection_count + 1, resolve({id, updated: true}); the
\* route goes on to logDeviceConnection
RegisterDeviceUpdate(k) ==
  /\ calls[k].pc = "update"
  /\ devices' = [devices EXCEPT ![calls[k].row].connection_count = @ + 1]
  /\ calls' = [calls EXCEPT ![k].pc = "log", ![k].result = "updated: true"]
  /\ UNCHANGED device_logs
  /\ UNCHANGED <<simVars, authVars, pageVars>>

\* the INSERT runs: mac_address is UNIQUE, so with a row of this address
\* present it fails, registerDevice rejects and the route answers 500;
\* otherwise the row is inserted with connection_count 0 and registerDevice
\* resolves {id, updated: false}
RegisterDeviceInsert(k) ==
  /\ calls[k].pc = "insert"
  /\ IF RowsOf(calls[k].mac_address) # {}
     THEN /\ calls' = [calls EXCEPT ![k].pc = "done", ![k].result = "rejected",
                                    ![k].status = 500]
          /\ UNCHANGED devices
     ELSE /\ devices' = Append(devices, [mac_address |-> calls[k].mac_address,
                                         connection_count |-> 0])
          /\ calls' = [calls EXCEPT ![k].pc = "log", ![k].row = Len(devices) + 1,
                                    ![k].result = "updated: false"]
  /\ UNCHANGED device_logs
  /\ UNCHANGED <<simVars, authVars, pageVars>>

\* logDeviceConnection inserts the log row and the route answers success
LogDeviceConnection(k) ==
  /\ calls[k].pc = "log"
  /\ device_logs' = Append(device_logs, [device_id |-> calls[k].row,
                                         mac_address |-> calls[k].mac_address,
                                         action |-> "connect"])
  /\ calls' = [calls EXCEPT ![k].pc = "done", ![k].status = 200]
  /\ UNCHANGED devices
  /\ UNCHANGED <<simVars, authVars, pageVars>>

DeviceInit ==
  /\ devices = <<>>
  /\ device_logs = <<>>
  /\ calls = [k \in Calls |-> NoCall]

PageInit ==
  /\ reachable = TRUE
  /\ monitors = [m \in Monitors |-> NewMonitor]
  /\ dashboard = NewDashboard(1)

Init == SimInit /\ AuthInit /\ PageInit /\ DeviceInit

(***************************************************************************)
(* Requests.                                                               *)
(***************************************************************************)
\* bodies of POST /api/auth/register and POST /auth/register; "" is a missing field
WellFormedBodies ==
  { [fullname |-> "Name", email |-> e, username |-> u, role |-> "user", password |-> "password1"] :
      e \in Emails, u \in Usernames }
RegisterBodies ==
  WellFormedBodies \cup
  { [fullname |-> "Name", email |-> "", username |-> "alice", role |-> "user", password |-> "password1"],
    [fullname |-> "Name", email |-> "a@x.org", username |-> "alice", role |-> "user", password |-> "short"],
    [fullname |-> "Name", email |-> "a@x.org", username |-> "alice", role |-> "root", password |-> "password1"] }

AllFields(b) ==
  b.fullname # "" /\ b.email # "" /\ b.username # "" /\ b.role # "" /\ b.password # ""

\* bodies of PUT /api/users/:id
UpdateBodies ==
  { ("role" :> "admin"), ("is_active" :> 0),
    ("username" :> "bob"), ("password" :> "hunter22"), ("Password" :> "hunter22") }

\* data given to Database.createAdmin by its caller, POST /api/auth/admin-register
AdminDatas ==
  { [username |-> u, email |-> "c@x.org", role |-> "admin", password |-> "password1",
     status |-> "pending_verification", isActive |-> FALSE] : u \in {"carol", "admin"} }

LoginUsernames == {"alice", "<bob>", "admin", "carol", ""}
LoginPasswords == {"password1", "admin123", "hunter22"}
LoginTypes == {"user", "admin"}

\* POST /api/auth/register (server.js) up to the end of createUser's INSERT
PostApiAuthRegister(b) ==
  /\ UNCHANGED <<simVars, pageVars, deviceVars>>
  /\ IF ~AllFields(b) \/ Len(b.password) < 8 \/ b.role \notin ValidRoles
     THEN /\ Respond("POST /api/auth/register", 400)
          /\ UNCHANGED <<users, usersLastId, registering>>
     ELSE IF ~UniqueOk(users, createUser(b))
     THEN \* UNIQUE constraint failed
          /\ Respond("POST /api/auth/register", 400)
          /\ UNCHANGED <<users, usersLastId, registering>>
     ELSE /\ usersLastId < MaxUsers
          /\ registering < MaxInFlight
          /\ users' = InsertRow(users, usersLastId + 1, createUser(b))
          /\ usersLastId' = usersLastId + 1
          /\ registering' = registering + 1
          /\ UNCHANGED response
  /\ UNCHANGED <<admins, user_activity_logs, admin_activity_logs, security_events,
                 system_settings, sessions, authHits>>

\* POST /api/auth/register after createUser resolved: logActivity, then 201
PostApiAuthRegisterDone ==
  /\ UNCHANGED <<simVars, pageVars, deviceVars>>
  /\ registering > 0
  /\ Len(user_activity_logs) < MaxLogRows
  /\ registering' = registering - 1
  /\ user_activity_logs' = Append(user_activity_logs, "Created new user")
  /\ Respond("POST /api/auth/register", 201)
  /\ UNCHANGED <<users, usersLastId, admins, admin_activity_logs, security_events,
                 system_settings, sessions, authHits>>

\* POST /auth/register (app.js): database.getUserByUsername is not a method of
\* Database, so the call throws and the catch block answers 500
PostAuthRegister(c, b) ==
  /\ UNCHANGED <<simVars, pageVars, deviceVars>>
  /\ IF ~AllFields(b)
     THEN Respond("POST /auth/register", 400)
     ELSE Respond("POST /auth/register", 500)
  /\ UNCHANGED <<users, usersLastId, admins, user_activity_logs, admin_activity_logs,
                 security_events, system_settings, sessions, authHits, registering>>

\* POST /api/auth/admin-register (app.js): behind authLimiter; with every field
\* given and a well-formed government id, database.getUserByUsername throws
PostApiAuthAdminRegister(c, complete) ==
  /\ UNCHANGED <<simVars, pageVars, deviceVars>>
  /\ authHits' = Counted(c)
  /\ IF Limited(c) THEN Respond("POST /api/auth/admin-register", 429)
     ELSE IF ~complete THEN Respond("POST /api/auth/admin-register", 400)
     ELSE Respond("POST /api/auth/admin-register", 500)
  /\ UNCHANGED <<users, usersLastId, admins, user_activity_logs, admin_activity_logs,
                 security_events, system_settings, sessions, registering>>

\* Database.createAdmin called with the data its caller builds
CreateAdmin(adminData) ==
  /\ UNCHANGED <<simVars, pageVars, deviceVars>>
  /\ UniqueOk(admins, createAdmin(adminData))
  /\ admins' = InsertRow(admins, Cardinality(DOMAIN admins) + 1, createAdmin(adminData))
  /\ UNCHANGED <<users, usersLastId, user_activity_logs, admin_activity_logs,
                 security_events, system_settings, sessions, authHits, registering, response>>

\* PUT /api/users/:id (server.js)
PutApiUsers(userId, body) ==
  LET result == updateUser(users, UserColumns, userId, StripSensitive(body))
  IN /\ UNCHANGED <<simVars, pageVars, deviceVars>>
     /\ IF result.err THEN
          /\ Respond("PUT /api/users/:id", 500)
          /\ UNCHANGED <<users, user_activity_logs>>
        ELSE IF result.changes > 0 THEN
          /\ Len(user_activity_logs) < MaxLogRows
          /\ users' = result.tbl
          /\ user_activity_logs' = Append(user_activity_logs, "Updated user")
          /\ Respond("PUT /api/users/:id", 200)
        ELSE
          /\ Respond("PUT /api/users/:id", 404)
          /\ UNCHANGED <<users, user_activity_logs>>
     /\ UNCHANGED <<usersLastId, admins, admin_activity_logs, security_events,
                    system_settings, sessions, authHits, registering>>

\* DELETE /api/users/:id (server.js)
DeleteApiUsers(userId) ==
  /\ UNCHANGED <<simVars, pageVars, deviceVars>>
  /\ IF userId \in DOMAIN users THEN
       /\ Len(user_activity_logs) < MaxLogRows
       /\ users' = [i \in DOMAIN users \ {userId} |-> users[i]]
       /\ user_activity_logs' = Append(user_activity_logs, "Deleted user")
       /\ Respond("DELETE /api/users/:id", 200)
     ELSE
       /\ Respond("DELETE /api/users/:id", 404)
       /\ UNCHANGED <<users, user_activity_logs>>
  /\ UNCHANGED <<usersLastId, admins, admin_activity_logs, security_events,
                 system_settings, sessions, authHits, registering>>

\* DELETE /api/logs (server.js)
DeleteApiLogs ==
  /\ UNCHANGED <<simVars, pageVars, deviceVars>>
  /\ user_activity_logs' = <<>>
  /\ Respond("DELETE /api/logs", 200)
  /\ UNCHANGED <<users, usersLastId, admins, admin_activity_logs, security_events,
                 system_settings, sessions, authHits, registering>>

\* PUT /api/settings/:key (server.js): INSERT OR REPLACE, then logActivity
PutApiSettings(key, value) ==
  /\ UNCHANGED <<simVars, pageVars, deviceVars>>
  /\ Len(user_activity_logs) < MaxLogRows
  /\ system_settings' = [k \in DOMAIN system_settings \cup {key} |->
                           IF k = key THEN value ELSE system_settings[k]]
  /\ user_activity_logs' = Append(user_activity_logs, "Updated setting")
  /\ Respond("PUT /api/settings/:key", 200)
  /\ UNCHANGED <<users, usersLastId, admins, admin_activity_logs, security_events,
                 sessions, authHits, registering>>

\* an INSERT that marks the new event as resolved
createResolvedEvent(event_type, severity) ==
  [event_type |-> event_type, severity |-> severity, resolved |-> 1]

\* Database.createSecurityEvent: the row INSERTed (resolved defaults to 0)
createSecurityEvent(event_type, severity) ==
  [event_type |-> event_type, severity |-> severity, resolved |-> 0]

\* a login handler that never takes the pending-verification branch
PendingNever(user) == FALSE

\* user.role === 'admin' && user.status === 'pending_verification'
PendingVerification(user) == user.role = "admin" /\ user.status = "pending_verification"

\* a threshold test that already fires at 3 recorded failures
SuspiciousFromThree(session) == session.loginAttempts >= 3

\* req.session.loginAttempts && req.session.loginAttempts > 3
Suspicious(session) == session.loginAttempts > 3

\* a failure counter that restarts at every failure
FailedAttemptsRestart(session) == 1

\* (req.session.loginAttempts || 0) + 1
FailedAttempts(session) == session.loginAttempts + 1

\* POST /auth/login (app.js), behind authLimiter
PostAuthLogin(c, username, password, loginType) ==
  LET user == authenticateUser(Sanitize(username), password, loginType)
      route == "POST /auth/login"
  IN IF Limited(c) THEN
       /\ authHits' = Counted(c)
       /\ Respond(route, 429)
       /\ UNCHANGED <<sessions, user_activity_logs, admin_activity_logs, security_events>>
     ELSE IF username = "" \/ password = "" THEN
       /\ authHits' = Counted(c)
       /\ Respond(route, 400)
       /\ UNCHANGED <<sessions, user_activity_logs, admin_activity_logs, security_events>>
     ELSE IF user # NoUser /\ PendingVerification(user) THEN
       /\ authHits' = Counted(c)
       /\ Respond(route, 403)
       /\ UNCHANGED <<sessions, user_activity_logs, admin_activity_logs, security_events>>
     ELSE IF user # NoUser THEN
       /\ IF loginType = "admin"
          THEN /\ Len(admin_activity_logs) < MaxLogRows
               /\ admin_activity_logs' = Append(admin_activity_logs, "User logged in")
               /\ UNCHANGED user_activity_logs
          ELSE /\ Len(user_activity_logs) < MaxLogRows
               /\ user_activity_logs' = Append(user_activity_logs, "User logged in")
               /\ UNCHANGED admin_activity_logs
       /\ IF Suspicious(sessions[c])
          THEN /\ Len(security_events) < MaxEvents
               /\ security_events' = Append(security_events,
                                            createSecurityEvent("suspicious_login", "medium"))
          ELSE UNCHANGED security_events
       /\ sessions' = [sessions EXCEPT ![c] =
                         [userId |-> user.id, userRole |-> user.role, loginAttempts |-> 0]]
       /\ Respond(route, 200)
       /\ UNCHANGED authHits
     ELSE
       /\ sessions[c].loginAttempts < MaxLoginAttempts
       /\ Len(security_events) < MaxEvents
       /\ sessions' = [sessions EXCEPT ![c].loginAttempts = FailedAttempts(sessions[c])]
       /\ security_events' = Append(security_events, createSecurityEvent("failed_login", "low"))
       /\ authHits' = Counted(c)
       /\ Respond(route, 401)
       /\ UNCHANGED <<user_activity_logs, admin_activity_logs>>

Login(c, username, password, loginType) ==
  /\ UNCHANGED <<simVars, pageVars, deviceVars>>
  /\ PostAuthLogin(c, username, password, loginType)
  /\ UNCHANGED <<users, usersLastId, admins, system_settings, registering>>

\* the 15-minute window of authLimiter ends
WindowEnds(c) ==
  /\ UNCHANGED <<simVars, pageVars, deviceVars>>
  /\ authHits[c] > 0
  /\ authHits' = [authHits EXCEPT ![c] = 0]
  /\ UNCHANGED <<users, usersLastId, admins, user_activity_logs, admin_activity_logs,
                 security_events, system_settings, sessions, registering, response>>

\* requireAuth and requireRole, the middleware app.js defines
requireAuth(session) == session.userId # 0
requireRole(session, role) == session.userRole = role

\* the middleware the page routes are registered with: none
PageAllowed(session, page) == TRUE

\* GET /dashboard, GET /admin, GET /viewer (app.js)
GetPage(c, page) ==
  /\ UNCHANGED <<simVars, pageVars, deviceVars>>
  /\ IF PageAllowed(sessions[c], page)
     THEN Respond(page, 200)
     ELSE Respond(page, 403)
  /\ UNCHANGED <<users, usersLastId, admins, user_activity_logs, admin_activity_logs,
                 security_events, system_settings, sessions, authHits, registering>>

Pages == {"GET /dashboard", "GET /admin", "GET /viewer"}

\* the body POST /api/admin/approve/:id gives to updateAdmin
ApprovalUpdates ==
  ("is_active" :> 1) @@ ("status" :> "active") @@
  ("approved_by" :> "admin") @@ ("approved_at" :> "now")

\* POST /api/admin/approve/:id (app.js)
PostApiAdminApprove(c, adminId) ==
  LET route == "POST /api/admin/approve/:id"
      result == updateAdmin(adminId, ApprovalUpdates)
  IN /\ UNCHANGED <<simVars, pageVars, deviceVars>>
     /\ IF ~requireAuth(sessions[c]) \/ ~requireRole(sessions[c], "admin") THEN
          /\ Respond(route, 401)
          /\ UNCHANGED <<admins, admin_activity_logs>>
        ELSE IF adminId \notin DOMAIN admins THEN
          /\ Respond(route, 404)
          /\ UNCHANGED <<admins, admin_activity_logs>>
        ELSE IF result.err THEN
          /\ Respond(route, 500)
          /\ UNCHANGED <<admins, admin_activity_logs>>
        ELSE
          /\ Len(admin_activity_logs) < MaxLogRows
          /\ admins' = result.tbl
          /\ admin_activity_logs' = Append(admin_activity_logs, "Admin account approved")
          /\ Respond(route, 200)
     /\ UNCHANGED <<users, usersLastId, user_activity_logs, security_events,
                    system_settings, sessions, authHits, registering>>

\* Database.resolveSecurityEvent: UPDATE security_events SET resolved = 1 WHERE id = ?
resolveSecurityEvent(events, eventId) ==
  [i \in DOMAIN events |-> IF i = eventId THEN [events[i] EXCEPT !.resolved = 1] ELSE events[i]]

\* POST /api/security-events/:id/resolve (app.js)
PostApiSecurityEventsResolve(c, eventId) ==
  /\ UNCHANGED <<simVars, pageVars, deviceVars>>
  /\ IF ~requireAuth(sessions[c]) THEN
       /\ Respond("POST /api/security-events/:id/resolve", 401)
       /\ UNCHANGED security_events
     ELSE
       /\ security_events' = resolveSecurityEvent(security_events, eventId)
       /\ Respond("POST /api/security-events/:id/resolve", 200)
  /\ UNCHANGED <<users, usersLastId, admins, user_activity_logs, admin_activity_logs,
                 system_settings, sessions, authHits, registering>>

\* the account-management routes of server.js and the registration routes
AccountsNext ==
  \/ \E b \in RegisterBodies : PostApiAuthRegister(b)
  \/ PostApiAuthRegisterDone
  \/ \E c \in Clients, b \in RegisterBodies : PostAuthRegister(c, b)
  \/ \E a \in AdminDatas : CreateAdmin(a)
  \/ \E id \in 1..MaxUsers, body \in UpdateBodies : PutApiUsers(id, body)
  \/ \E id \in 1..MaxUsers : DeleteApiUsers(id)
  \/ DeleteApiLogs
  \/ \E v \in {"1"} : PutApiSettings("max_logs", v)

\* the session routes of app.js, over accounts created through server.js
SessionNext ==
  \/ \E b \in RegisterBodies : PostApiAuthRegister(b)
  \/ PostApiAuthRegisterDone
  \/ \E c \in Clients, b \in RegisterBodies : PostAuthRegister(c, b)
  \/ \E c \in Clients, complete \in BOOLEAN : PostApiAuthAdminRegister(c, complete)
  \/ \E c \in Clients, u \in LoginUsernames, p \in LoginPasswords, t \in LoginTypes :
       Login(c, u, p, t)
  \/ \E c \in Clients : WindowEnds(c)
  \/ \E c \in Clients, page \in Pages : GetPage(c, page)

AuthNext == AccountsNext \/ SessionNext

\* the account routes do not read the simulator: one seeding of the districts
AuthStart == Init /\ \A d \in Districts : dbDistricts[d].active_hotspots = 300
SpecAccounts == AuthStart /\ [][AccountsNext]_vars
SpecSession == AuthStart /\ [][SessionNext]_vars

\* logins of app.js against accounts in every state: active, deactivated
\* through PUT /api/users/:id, pending verification
Deactivation == ("is_active" :> 0)
AliceBody ==
  [fullname |-> "Name", email |-> "a@x.org", username |-> "alice", role |-> "user",
   password |-> "password1"]
\* the accounts these logins name, a missing username, right and wrong passwords
AccountNames == {"alice", "admin", "carol", ""}
AccountPasswords == {"password1", "admin123"}
LoginNext ==
  \/ PostApiAuthRegister(AliceBody)
  \/ PostApiAuthRegisterDone
  \/ PutApiUsers(1, Deactivation)
  \/ \E a \in AdminDatas : CreateAdmin(a)
  \/ \E c \in Clients, u \in AccountNames, p \in AccountPasswords, t \in LoginTypes :
       Login(c, u, p, t)
  \/ \E c \in Clients : WindowEnds(c)

SpecLogin == AuthStart /\ [][LoginNext]_vars

\* the routes of app.js an administrator reviews registrations and events with
ReviewNext ==
  \/ \E a \in AdminDatas : CreateAdmin(a)
  \/ \E c \in Clients, u \in {"admin", "carol"}, p \in {"admin123", "password1"} :
       Login(c, u, p, "admin")
  \/ \E c \in Clients : WindowEnds(c)
  \/ \E c \in Clients, id \in 1..3 : PostApiAdminApprove(c, id)
  \/ \E c \in Clients, id \in 1..MaxEvents : PostApiSecurityEventsResolve(c, id)

SpecReview == AuthStart /\ [][ReviewNext]_vars

\* the metrics the server starts with before the districts are loaded
InitialWifiData(districts) ==
  [totalHotspots |-> 12500, activeHotspots |-> 9800, utilization |-> 62,
   criticalDistricts |-> 118, districts |-> districts]

\* INSERT OR IGNORE of the rows seedInitialData and initializeSettings insert
SeedAdminOrIgnore(tbl) ==
  IF UniqueOk(tbl, SeedAdmin)
  THEN InsertRow(tbl, Cardinality(DOMAIN tbl) + 1, SeedAdmin)
  ELSE tbl
SeedSettingsOrIgnore(settings) ==
  [k \in DOMAIN settings \cup DOMAIN SeedSettings |->
     IF k \in DOMAIN settings THEN settings[k] ELSE SeedSettings[k]]

\* the server process is started again on the existing database files:
\* database.init (createTables, seedInitialData, initializeDistricts,
\* initializeSettings), then loadDistrictsFromDB; memory starts afresh
Restart ==
  /\ dbDistricts' \in [Districts -> SeedRows]
  /\ wifiData' = updateMetricsFromDistricts(InitialWifiData(dbDistricts'))
  /\ ticks' = [t \in TickIds |-> IdleTick]
  /\ clients' = [c \in Connections |-> [readyState |-> "NONE", msgs |-> <<>>, requests |-> 0]]
  /\ admins' = SeedAdminOrIgnore(admins)
  /\ system_settings' = SeedSettingsOrIgnore(system_settings)
  /\ sessions' = [c \in Clients |-> NoSession]
  /\ authHits' = [c \in Clients |-> 0]
  /\ registering' = 0
  /\ response' = NoResponse
  /\ UNCHANGED <<wifi_metrics, users, usersLastId, user_activity_logs,
                 admin_activity_logs, security_events>>
  /\ UNCHANGED <<pageVars, deviceVars>>

\* the simulator writing districts, a setting being changed, and restarts
RestartNext ==
  \/ \E t \in TickIds : TickStart(t)
  \/ \E t \in TickIds : UpdateResolve(t)
  \/ \E v \in {"1"} : PutApiSettings("max_logs", v)
  \/ Restart

SpecRestart == Init /\ [][RestartNext]_vars

\* the pages running realtime-monitor.js and the server they connect to
MonitorNext ==
  \/ \E m \in Monitors : MonitorOpen(m)
  \/ \E m \in Monitors, type \in {"initial_data", "data_update"} : MonitorMessage(m, type)
  \/ \E m \in Monitors : MonitorConnectFails(m)
  \/ \E m \in Monitors : MonitorError(m)
  \/ \E m \in Monitors : MonitorClose(m)
  \/ \E m \in Monitors : MonitorServerClose(m)
  \/ \E m \in Monitors : MonitorTimer(m)
  \/ ServerDown
  \/ ServerUp

\* browser events and timers that are due do happen
MonitorFairness ==
  \A m \in Monitors :
    /\ WF_vars(MonitorOpen(m))
    /\ WF_vars(MonitorConnectFails(m))
    /\ WF_vars(MonitorClose(m))
    /\ WF_vars(MonitorTimer(m))

SpecMonitor == AuthStart /\ [][MonitorNext]_vars /\ MonitorFairness

\* the dashboard page and the server it connects to
DashboardNext ==
  \/ DashboardOpen
  \/ DashboardMessage
  \/ DashboardError
  \/ DashboardClose
  \/ DashboardTick
  \/ DashboardFallback
  \/ DashboardReload
  \/ ServerDown
  \/ ServerUp

SpecDashboard == AuthStart /\ [][DashboardNext]_vars

\* the simulator, the WebSocket connections and GET /api/wifi-data
SnapshotNext ==
  \/ \E t \in TickIds : TickStart(t)
  \/ \E t \in TickIds : UpdateResolve(t)
  \/ \E t \in TickIds : UpdateReject(t)
  \/ \E t \in TickIds : SaveResolve(t)
  \/ \E t \in TickIds : SaveReject(t)
  \/ \E c \in Connections : Connection(c)
  \/ \E c \in Connections : RequestUpdate(c)
  \/ GetApiWifiData

SpecSnapshot == Init /\ [][SnapshotNext]_vars

\* the timer, the database callbacks of the ticks, and connecting clients
TicksNext ==
  \/ \E t \in TickIds : TickStart(t)
  \/ \E t \in TickIds : UpdateResolve(t)
  \/ \E t \in TickIds : UpdateReject(t)
  \/ \E t \in TickIds : SaveResolve(t)
  \/ \E t \in TickIds : SaveReject(t)
  \/ \E c \in Connections : Connection(c)

\* setInterval keeps firing, and sqlite3 calls every callback, with an
\* error or without
TicksFairness ==
  \A t \in TickIds :
    /\ WF_vars(TickStart(t))
    /\ WF_vars(UpdateResolve(t) \/ UpdateReject(t))
    /\ WF_vars(SaveResolve(t) \/ SaveReject(t))

SpecTicks == Init /\ [][TicksNext]_vars /\ TicksFairness

\* requests to POST /api/simulate-device and their database callbacks
DevicesNext ==
  \/ \E k \in Calls, mac \in MacAddresses : PostApiSimulateDevice(k, mac)
  \/ \E k \in Calls : RegisterDeviceSelect(k)
  \/ \E k \in Calls : RegisterDeviceUpdate(k)
  \/ \E k \in Calls : RegisterDeviceInsert(k)
  \/ \E k \in Calls : LogDeviceConnection(k)

SpecDevices == AuthStart /\ [][DevicesNext]_vars

SimNext ==
  \/ \E t \in TickIds : TickStart(t)
  \/ \E t \in TickIds : UpdateResolve(t)
  \/ \E t \in TickIds : UpdateReject(t)
  \/ \E t \in TickIds : SaveResolve(t)
  \/ \E t \in TickIds : SaveReject(t)
  \/ \E c \in Connections : Connection(c)
  \/ \E c \in Connections : RequestUpdate(c)
  \/ \E c \in Connections : Close(c)

SpecSim == Init /\ [][SimNext]_vars

Next == SimNext \/ AuthNext \/ Restart \/ MonitorNext \/ DashboardNext \/ GetApiWifiData
          \/ DevicesNext
Spec == Init /\ [][Next]_vars

(***************************************************************************)
(* Properties.                                                             *)
(***************************************************************************)
Served(page) == response' = [route |-> page, status |-> 200]

\* C1: a page is served only to a session with the role of the page (/admin:
\* admin, /viewer: viewer, /dashboard: any session with a userId); a request
\* without an authenticated session is served none of the three.
C1_PagesAreRoleGated ==
  [][\A c \in Clients :
       /\ (GetPage(c, "GET /admin") /\ Served("GET /admin"))
            => requireRole(sessions[c], "admin")
       /\ (GetPage(c, "GET /viewer") /\ Served("GET /viewer"))
            => requireRole(sessions[c], "viewer")
       /\ (GetPage(c, "GET /dashboard") /\ Served("GET /dashboard"))
            => requireAuth(sessions[c])]_vars

\* a user row is updated or deleted, the activity log is cleared, or a setting changes
SensitiveChange ==
  \/ \E id \in DOMAIN users : id \notin DOMAIN users' \/ users'[id] # users[id]
  \/ user_activity_logs # <<>> /\ user_activity_logs' = <<>>
  \/ system_settings' # system_settings

\* C2: a user row is updated or deleted, the activity log cleared or a setting
\* changed only on behalf of a session whose role is admin.
C2_SensitiveOperationsNeedAdmin ==
  [][SensitiveChange => \E c \in Clients : sessions[c].userRole = "admin"]_vars

\* C3: the password column of every row of users and admins holds a bcrypt
\* hash, never a submitted plaintext.
C3_PasswordsAreHashed ==
  /\ \A id \in DOMAIN users : users[id].password.alg = "bcrypt"
  /\ \A id \in DOMAIN admins : admins[id].password.alg = "bcrypt"

NoDuplicates(tbl) ==
  \A i, j \in DOMAIN tbl :
    i # j => tbl[i].username # tbl[j].username /\ tbl[i].email # tbl[j].email

\* C4: no two rows of users, and no two rows of admins, share a username or
\* share an email, whatever the interleaving of registration requests.
C4_UsernamesAndEmailsUnique == NoDuplicates(users) /\ NoDuplicates(admins)

\* C4 witness: two registrations are suspended at their await with their rows
\* inserted, and a further registration has just been refused
C4_Witness ==
  /\ Cardinality(DOMAIN users) = 2
  /\ registering = 2
  /\ response = [route |-> "POST /api/auth/register", status |-> 400]

AlreadyRegistered(b) ==
  Taken(users, "username", b.username, 0) \/ Taken(users, "email", b.email, 0)

\* C5: a registration with every field whose username or email belongs to an
\* existing account is answered 409 and creates no account row and no log row.
C5_DuplicateRegistrationIs409 ==
  [][\A c \in Clients, b \in RegisterBodies :
       (AllFields(b) /\ AlreadyRegistered(b) /\ PostAuthRegister(c, b))
         => /\ response'.status = 409
            /\ users' = users
            /\ user_activity_logs' = user_activity_logs]_vars

\* C6: POST /auth/register with every field and an unused username and email
\* is answered 201 and inserts exactly one account row.
C6_FreshRegistrationIs201 ==
  [][\A c \in Clients, b \in RegisterBodies :
       (AllFields(b) /\ ~AlreadyRegistered(b) /\ PostAuthRegister(c, b))
         => /\ response'.status = 201
            /\ Cardinality(DOMAIN users') = Cardinality(DOMAIN users) + 1]_vars

InRange(row) ==
  /\ 0 <= row.active_hotspots /\ row.active_hotspots <= row.total_hotspots
  /\ 0 <= row.utilization /\ row.utilization <= 100

\* C7: once a run of simulateRealTimeData has run to its end, every district
\* has 0 <= active_hotspots <= total_hotspots and 0 <= utilization <= 100, in
\* wifiData.districts and in the districts table.
C7_DistrictsClamped ==
  (\E t \in TickIds : ticks[t].pc = "done")
    => \A d \in Districts : InRange(wifiData.districts[d]) /\ InRange(dbDistricts[d])

\* C7 witness: after a run to the end, a district sits at its upper limit
\* (no seeded row has active_hotspots = total_hotspots)
C7_Witness ==
  /\ \E t \in TickIds : ticks[t].pc = "done"
  /\ \E d \in Districts :
       /\ wifiData.districts[d].active_hotspots = wifiData.districts[d].total_hotspots
       /\ dbDistricts[d].active_hotspots = dbDistricts[d].total_hotspots

TickEnds(t) == InProgress(t) /\ ticks'[t].pc \in {"done", "failed"}
TickSucceeds(t) == InProgress(t) /\ ticks'[t].pc = "done"
TickFails(t) == InProgress(t) /\ ticks'[t].pc = "failed"

\* every client that is OPEN is sent one data_update, the others nothing
OneUpdateToEveryOpenClient ==
  \A c \in Connections :
    IF clients[c].readyState = "OPEN"
    THEN clients'[c] = [clients[c] EXCEPT !.msgs = Append(@, "data_update")]
    ELSE clients'[c] = clients[c]

\* C8 as stated: every run of simulateRealTimeData ends with one data_update
\* sent to every open client, whatever happened to the database writes.
C8_BroadcastWhateverHappens ==
  [][\A t \in TickIds : TickEnds(t) => OneUpdateToEveryOpenClient]_vars

\* C8 amended: a run whose database writes all succeed ends with one
\* data_update sent to every open client; a run in which a write rejects
\* sends nothing.
C8_BroadcastAfterSuccessfulWrites ==
  [][\A t \in TickIds :
       /\ TickSucceeds(t) => OneUpdateToEveryOpenClient
       /\ TickFails(t) => clients' = clients]_vars

\* C8 witness: one run has failed, another has ended with a broadcast that
\* reached an open client and passed over a closed one
C8_Witness ==
  /\ \E t, u \in TickIds : ticks[t].pc = "done" /\ ticks[u].pc = "failed"
  /\ \E c, b \in Connections :
       /\ clients[c].readyState = "OPEN" /\ clients[c].msgs = <<"initial_data", "data_update">>
       /\ clients[b].readyState = "CLOSED" /\ clients[b].msgs = <<"initial_data">>

\* C9: at most one invocation of simulateRealTimeData is in progress.
C9_OneTickAtATime == Cardinality({t \in TickIds : InProgress(t)}) <= 1

\* C10: the first message sent on a connection is initial_data and every
\* later one is data_update.
C10_InitialDataFirst ==
  \A c \in Connections :
    /\ clients[c].readyState # "NONE" => clients[c].msgs # <<>>
    /\ \A i \in 1..Len(clients[c].msgs) :
         clients[c].msgs[i] = IF i = 1 THEN "initial_data" ELSE "data_update"

\* C10 witness: a connection opened while a run was suspended has received
\* its initial_data, that run's broadcast and a requested update
C10_Witness ==
  \E c \in Connections :
    /\ Len(clients[c].msgs) >= 3
    /\ clients[c].requests > 0
    /\ \E t \in TickIds : ticks[t].pc = "done"

IsPercentage(u) == u \in 0..100

\* C11: after the districts have been loaded at startup, the top-level
\* utilization of wifiData, and every utilization inserted into wifi_metrics,
\* is an integer between 0 and 100.
C11_UtilizationIsPercentage ==
  /\ IsPercentage(wifiData.utilization)
  /\ \A i \in 1..Len(wifi_metrics) : IsPercentage(wifi_metrics[i].utilization)

LoginRoute == "POST /auth/login"
Accounts(t) == IF t = "admin" THEN admins ELSE users
IsPending(t, row) == t = "admin" /\ row.status = "pending_verification"
\* the login names an account of table t that is pending and gives its password
PendingWithPassword(u, p, t) ==
  \E id \in DOMAIN Accounts(t) :
    /\ Accounts(t)[id].username = Sanitize(u)
    /\ IsPending(t, Accounts(t)[id])
    /\ compareSync(p, Accounts(t)[id].password)
\* the login names an account of table t that is deactivated and not pending
Deactivated(u, t) ==
  \E id \in DOMAIN Accounts(t) :
    /\ Accounts(t)[id].username = Sanitize(u)
    /\ Accounts(t)[id].is_active = 0
    /\ ~IsPending(t, Accounts(t)[id])
\* the session of c belongs to an active account of table t that is not pending
SessionOfActiveAccount(c, t) ==
  /\ sessions'[c].userId \in DOMAIN Accounts(t)
  /\ Accounts(t)[sessions'[c].userId].is_active = 1
  /\ ~IsPending(t, Accounts(t)[sessions'[c].userId])
LoginSetsSession(c) == response'.status = 200

AdminSession(c) == requireAuth(sessions[c]) /\ requireRole(sessions[c], "admin")
PendingAdmin(id) == id \in DOMAIN admins /\ admins[id].status = "pending_verification"

\* C13: when an admin session approves an existing pending admin, the
\* response is a success, the row then has is_active = 1 and status 'active'
\* and an 'Admin account approved' activity is logged; a caller without an
\* admin session gets 401 and an unknown id gets 404, with no row changed.
C13_ApprovalActivatesAccount ==
  [][\A c \in Clients, id \in 1..3 :
       /\ (AdminSession(c) /\ PendingAdmin(id) /\ PostApiAdminApprove(c, id))
            => /\ response'.status = 200
               /\ admins'[id].is_active = 1 /\ admins'[id].status = "active"
               /\ admin_activity_logs' = Append(admin_activity_logs, "Admin account approved")
       /\ (~AdminSession(c) /\ PostApiAdminApprove(c, id))
            => response'.status = 401 /\ admins' = admins
       /\ (AdminSession(c) /\ id \notin DOMAIN admins /\ PostApiAdminApprove(c, id))
            => response'.status = 404 /\ admins' = admins]_vars

\* C14: initialization on a database that already holds data leaves every
\* existing row unchanged: the districts, the admins and the settings are the
\* same after a restart as before it.
C14_RestartKeepsRows ==
  [][Restart => /\ dbDistricts' = dbDistricts
                /\ admins' = admins
                /\ system_settings' = system_settings]_vars

\* the number a setting value denotes
SettingAsNumber(value) ==
  CASE value = "1" -> 1
    [] value = "2" -> 2
    [] value = "80" -> 80
    [] OTHER -> 100

\* C15: each activity-log table holds at most max_logs rows.
C15_LogsWithinMaxLogs ==
  /\ Len(user_activity_logs) <= SettingAsNumber(system_settings["max_logs"])
  /\ Len(admin_activity_logs) <= SettingAsNumber(system_settings["max_logs"])

Authenticates(u, p, t) == authenticateUser(Sanitize(u), p, t) # NoUser
FailedLoginEvent == [event_type |-> "failed_login", severity |-> "low", resolved |-> 0]
SuspiciousLoginEvent == [event_type |-> "suspicious_login", severity |-> "medium", resolved |-> 0]

\* the effects of a failed login: 401, one failed_login event, one more
\* recorded attempt, session.userId as before
FailedLoginRecorded(c) ==
  /\ response'.status = 401
  /\ security_events' = Append(security_events, FailedLoginEvent)
  /\ sessions'[c].loginAttempts = sessions[c].loginAttempts + 1
  /\ sessions'[c].userId = sessions[c].userId
NothingRecorded == security_events' = security_events /\ sessions' = sessions

C17_SuspiciousLoginAfterFailures ==
  [][\A c \in Clients, u \in AccountNames, p \in AccountPasswords, t \in LoginTypes :
       (LoginSetsSession(c) /\ Login(c, u, p, t)) =>
         /\ sessions'[c].loginAttempts = 0
         /\ IF sessions[c].loginAttempts > 3
            THEN security_events' = Append(security_events, SuspiciousLoginEvent)
            ELSE security_events' = security_events]_vars

\* C17 witness: four failures, then a successful login that left the
\* suspicious_login event and reset the counter
C17_Witness ==
  /\ response = [route |-> LoginRoute, status |-> 200]
  /\ security_events = <<FailedLoginEvent, FailedLoginEvent, FailedLoginEvent,
                         FailedLoginEvent, SuspiciousLoginEvent>>
  /\ \E c \in Clients : sessions[c].userId # 0 /\ sessions[c].loginAttempts = 0

ResolveRoute == "POST /api/security-events/:id/resolve"

\* C18: an event is created with resolved = 0; its flag becomes 1 only
\* through the resolve route called from a session with a userId (without
\* one the answer is 401 and nothing changes); a resolved event stays
\* resolved, also when it is resolved again.
C18_ResolvedFlagMonotonic ==
  [][/\ Len(security_events') >= Len(security_events)
     /\ \A i \in 1..Len(security_events') :
          IF i > Len(security_events)
          THEN security_events'[i].resolved = 0
          ELSE /\ security_events[i].resolved = 1 => security_events'[i].resolved = 1
               /\ (security_events[i].resolved = 0 /\ security_events'[i].resolved = 1)
                    => /\ response' = [route |-> ResolveRoute, status |-> 200]
                       /\ \E c \in Clients :
                            requireAuth(sessions[c]) /\ PostApiSecurityEventsResolve(c, i)
     /\ \A c \in Clients, id \in 1..MaxEvents :
          (~requireAuth(sessions[c]) /\ PostApiSecurityEventsResolve(c, id))
            => response'.status = 401 /\ security_events' = security_events]_vars

\* C18 witness: of two events, one has been resolved by a logged-in session
\* and the other is still open
C18_Witness ==
  /\ response = [route |-> ResolveRoute, status |-> 200]
  /\ Len(security_events) >= 2
  /\ \E i, j \in 1..Len(security_events) :
       security_events[i].resolved = 1 /\ security_events[j].resolved = 0
  /\ \E c \in Clients : requireAuth(sessions[c])

\* sockets of a page that are connecting or open
LiveSockets(m) == monitors[m].orphans + (IF Live(monitors[m].ws) THEN 1 ELSE 0)
SocketCloses(m) == monitors[m].ws # "CLOSED" /\ monitors'[m].ws = "CLOSED"

\* C19: when the monitor page's socket closes exactly one reconnection is
\* scheduled; the page never holds more than one socket that is connecting or
\* open, nor more than one pending reconnection timer; and if the server is
\* eventually reachable for good, a closed socket is followed by an open one.
C19_AutomaticReconnection ==
  /\ [](\A m \in Monitors : LiveSockets(m) <= 1 /\ monitors[m].timers <= 1)
  /\ [][\A m \in Monitors :
          SocketCloses(m) => monitors'[m].timers = monitors[m].timers + 1]_vars
  /\ (<>[]reachable)
       => \A m \in Monitors : [](monitors[m].ws = "CLOSED" => <>(monitors[m].ws = "OPEN"))

\* C19 witness: one page has reconnected and is open again, the other has
\* lost its socket and waits for its reconnection timer
C19_Witness ==
  \E m, n \in Monitors :
    /\ monitors[m].connects = 2 /\ monitors[m].ws = "OPEN" /\ monitors[m].timers = 0
    /\ monitors[n].ws = "CLOSED" /\ monitors[n].timers = 1

\* the socket of the present page load has failed: it never opened, or it
\* raised an error or closed before any message arrived
SocketFailed == ~dashboard.opened \/ dashboard.failed

\* C20: when the 5-second fallback timer of the dashboard page runs and the
\* page's socket has failed (never opened, or errored or closed before any
\* message), the page loads the metrics through loadInitialData.
C20_RestFallbackWithinFiveSeconds ==
  [][(DashboardFallback /\ SocketFailed) => dashboard'.restLoaded]_vars

(***************************************************************************)
(* The simulator's frame, the derived metrics and the snapshots.           *)
(***************************************************************************)
\* the columns simulateRealTimeData writes, and the rest of a district
WrittenFields == {"active_hotspots", "utilization", "status"}
Frame(district) == [f \in DOMAIN district \ WrittenFields |-> district[f]]

TableTotal == SumOver(dbDistricts, Districts, "total_hotspots")
TickBegins(t) == ticks[t].pc = "idle" /\ ticks'[t].pc = "updateDistrict"
TickAdvances(t) ==
  ticks[t].pc = "updateDistrict" /\ ticks'[t].pc = "updateDistrict" /\ ticks'[t] # ticks[t]
TickRecalculates(t) == ticks[t].pc = "updateDistrict" /\ ticks'[t].pc = "saveMetrics"

\* every step leaves the ids and the unwritten fields (name, total_hotspots)
\* of every district alone, in memory and in the table, and a run of
\* simulateRealTimeData takes the districts one by one, from the first to
\* the last
FrameAndVisits ==
  /\ DOMAIN dbDistricts' = DOMAIN dbDistricts
  /\ DOMAIN wifiData'.districts = DOMAIN wifiData.districts
  /\ \A d \in Districts :
       /\ Frame(dbDistricts'[d]) = Frame(dbDistricts[d])
       /\ Frame(wifiData'.districts[d]) = Frame(wifiData.districts[d])
  /\ \A t \in TickIds :
       /\ TickBegins(t) => ticks'[t].i = 1
       /\ TickAdvances(t) => ticks'[t].i = ticks[t].i + 1
       /\ TickRecalculates(t) => ticks[t].i = NumDistricts

\* C21 as stated: each tick visits every district once and leaves id, name
\* and total_hotspots unchanged in memory and in the table, and after any
\* tick that completes without error wifiData.totalHotspots is the total of
\* the initial load.
C21_TotalsKeptAfterEveryTick ==
  [][/\ FrameAndVisits
     /\ \A t \in TickIds : TickSucceeds(t) => wifiData'.totalHotspots = TableTotal]_vars

\* the top-level totals and the critical count are those of the districts
Derived(metrics, districts) ==
  /\ metrics.totalHotspots = SumOver(districts, DOMAIN districts, "total_hotspots")
  /\ metrics.activeHotspots = SumOver(districts, DOMAIN districts, "active_hotspots")
  /\ metrics.criticalDistricts =
       Cardinality({d \in DOMAIN districts : districts[d].status = "critical"})
  /\ metrics.criticalDistricts <= Cardinality(DOMAIN districts)

\* C22: after the initial load and after every tick that completes without
\* error, totalHotspots, activeHotspots and criticalDistricts of the store are
\* the sums and the critical count of its districts; the metrics a tick
\* persists, and those it broadcasts (the store's, when it completes), carry
\* nothing of the perturbation made at the start of a tick.
C22_MetricsDerivedFromDistricts ==
  /\ Derived(MetricsOf(wifiData), wifiData.districts)
  /\ [][\A t \in TickIds :
          /\ TickRecalculates(t) => Derived(ticks'[t].metrics, wifiData'.districts)
          /\ TickSucceeds(t) => Derived(MetricsOf(wifiData'), wifiData'.districts)]_vars

\* the fields simulateRealTimeData writes are the same in memory and in the table
Tracks(d) ==
  \A f \in WrittenFields : wifiData.districts[d][f] = dbDistricts[d][f]

NoTickInProgress == \A t \in TickIds : ~InProgress(t)

\* C23: whenever no tick is in progress, every in-memory district has the
\* active_hotspots, utilization and status of its row in the districts
\* table, also after failed and overlapping ticks; and a step that assigns
\* an in-memory district field assigns the value the table then holds.
C23_MemoryTracksTable ==
  /\ [](NoTickInProgress => \A d \in Districts : Tracks(d))
  /\ [][\A d \in Districts, f \in WrittenFields :
          wifiData'.districts[d][f] # wifiData.districts[d][f]
            => wifiData'.districts[d][f] = dbDistricts'[d][f]]_vars

\* C23 witness: one tick has failed and one has completed, none is in
\* progress, every district was rewritten, and memory and table agree
C23_Witness ==
  /\ \E t, u \in TickIds : ticks[t].pc = "failed" /\ ticks[u].pc = "done"
  /\ \A d \in Districts : dbDistricts[d].active_hotspots \notin {300, 505} /\ Tracks(d)

\* the totals of a payload are the sums over the districts of that payload
Consistent(payload) ==
  /\ payload.totalHotspots = SumOver(payload.districts, DOMAIN payload.districts, "total_hotspots")
  /\ payload.activeHotspots = SumOver(payload.districts, DOMAIN payload.districts, "active_hotspots")

\* C24: every snapshot handed to a client is consistent: the response of
\* GET /api/wifi-data, the initial_data of a new connection, the reply to
\* request_update and the broadcast of a tick each carry totals that are the
\* sums over the districts of the same payload, also while a tick is
\* suspended at a database await.
C24_SnapshotsConsistent ==
  [][/\ GetApiWifiData => Consistent(WifiDataBody(wifiData))
     /\ (\E c \in Connections : Connection(c)) => Consistent(InitialDataPayload(wifiData))
     /\ (\E c \in Connections : RequestUpdate(c)) => Consistent(RequestUpdatePayload(wifiData))
     /\ (\E t \in TickIds : SaveResolve(t)) => Consistent(BroadcastPayload(wifiData))]_vars

\* ticks that have ended with a broadcast
Broadcasts == Cardinality({t \in TickIds : ticks[t].pc = "done"})

\* C25: a tick's broadcast carries exactly the totalHotspots, activeHotspots,
\* utilization and criticalDistricts of the wifi_metrics row that tick has
\* inserted, it follows the updates of all district rows, and there are never
\* more broadcasts than inserted rows.
C25_PersistBeforePublish ==
  /\ [](Broadcasts <= Len(wifi_metrics))
  /\ [][\A t \in TickIds :
          /\ TickRecalculates(t) => ticks[t].i = NumDistricts
          /\ TickSucceeds(t)
               => /\ Len(wifi_metrics') = Len(wifi_metrics) + 1
                  /\ wifi_metrics'[Len(wifi_metrics')] = MetricsOf(BroadcastPayload(wifiData'))]_vars

\* C26: a tick in which a database write rejects ends in its catch block:
\* it changes no district, inserts no row and sends nothing, so the districts
\* it had processed keep their new values and the others their old ones; it
\* is not run again; whatever fails, the timer starts every later tick and
\* every tick ends, and one whose writes all succeed ends with a broadcast.
C26_FailedTickDoesNotStopSimulator ==
  /\ [][\A t \in TickIds :
          /\ TickFails(t) => /\ wifiData' = wifiData /\ dbDistricts' = dbDistricts
                             /\ wifi_metrics' = wifi_metrics /\ clients' = clients
          /\ ticks[t].pc = "failed" => ticks'[t].pc = "failed"
          /\ TickSucceeds(t) => OneUpdateToEveryOpenClient]_vars
  /\ <>(\A t \in TickIds : ticks[t].pc \in {"done", "failed"})

\* C26 witness: the first tick has failed after it rewrote the first district,
\* and the next tick has completed, inserted its row and reached an open client
C26_Witness ==
  /\ ticks[1].pc = "failed" /\ ticks[2].pc = "done"
  /\ Len(wifi_metrics) = 1
  /\ \A d \in Districts : dbDistricts[d].active_hotspots \notin {300, 505} /\ Tracks(d)
  /\ \E c \in Connections : clients[c].msgs = <<"initial_data", "data_update">>

(***************************************************************************)
(* Devices.                                                                *)
(***************************************************************************)
\* the calls of registerDevice made with this mac_address, and those settled
CallsWith(mac) == {k \in Calls : calls[k].mac_address = mac}
Settled(k) == calls[k].pc \in {"log", "done"}
Reporting(mac, result) == {k \in CallsWith(mac) : calls[k].result = result}

\* C27: once the registerDevice calls made with one mac_address have all
\* settled, whatever their interleaving, the devices table holds exactly one
\* row for that address, no call was rejected, exactly one call reported
\* updated: false, and the row's connection_count is the number of calls
\* that reported updated: true.
C27_RegisterDeviceIsUpsert ==
  \A mac \in MacAddresses :
    (CallsWith(mac) # {} /\ \A k \in CallsWith(mac) : Settled(k))
      => /\ Cardinality(RowsOf(mac)) = 1
         /\ Reporting(mac, "rejected") = {}
         /\ Cardinality(Reporting(mac, "updated: false")) = 1
         /\ \A id \in RowsOf(mac) :
              devices[id].connection_count = Cardinality(Reporting(mac, "updated: true"))

====
